---- MODULE Spec2Model ----
(***************************************************************************)
(* The proposal workflow screen (ProposalDevelopmentModule) together with  *)
(* the rich-text editing surface it embeds (TiptapEditor), as one state    *)
(* machine.  Every user gesture and every completion of an outbound call   *)
(* is one action.  A handler runs against the values captured by the       *)
(* render that created it; for the synchronous handlers these are the      *)
(* current values, for the continuation of getAISectionSuggestion they are *)
(* the values captured when the request was issued.                        *)
(***************************************************************************)
EXTENDS Integers, Sequences, FiniteSets, TLC

VARIABLES
    currentUser,         \* role of the signed-in user (useAuth)
    users,               \* the predefined user list (MOCK_USERS)
    proposal,            \* currentProject.proposal
    stage,               \* currentProject stage (setProjectStage)
    assignedStatistician,\* currentProject.assignedStatistician (assignExpert)
    isLoading,           \* shared busy flag of the project context
    error,               \* shared error of the project context
    route,               \* current client-side route
    activeSection,       \* screen state: the section being edited
    notification,        \* screen state: the banner
    suggestion,          \* the suggestion request in flight, with its closure
    suggestionCount,     \* suggestion requests issued so far
    doc,                 \* editor: the document held by the editing surface
    action,              \* editor: selected action
    style,               \* editor: selected style
    loading,             \* editor: busy flag of the transform request
    responseText,        \* editor: pending AI response
    modalOpen,           \* editor: response modal shown
    editorError,         \* editor: error string
    request,             \* the transform request in flight
    accepted,            \* callbacks the latest handleAccept invoked, in order
    dismissed,           \* the response to the latest request was discarded
    inFlight             \* transform requests issued and not yet answered

vars == << currentUser, users, proposal, stage, assignedStatistician, isLoading,
           error, route, activeSection, notification, suggestion,
           suggestionCount, doc, action, style, loading, responseText,
           modalOpen, editorError, request, accepted, dismissed, inFlight >>

screenVars == << stage, assignedStatistician, isLoading, error, route,
                 activeSection, notification, suggestion, suggestionCount >>

editorVars == << doc, action, style, loading, responseText, modalOpen,
                 editorError, request, accepted, dismissed, inFlight >>

-----------------------------------------------------------------------------
(* Bounds of the model *)

NumSections == 2
NumActions == 2
NumStyles == 1
MaxSuggestions == 1

-----------------------------------------------------------------------------
(* Static data *)

PROPOSAL_SECTIONS ==
    << [id |-> "background",       name |-> "Detailed Background"],
       [id |-> "objectives",       name |-> "Research Objectives/Hypotheses"],
       [id |-> "methodology",      name |-> "Methodology"],
       [id |-> "sampleSize",       name |-> "Sample Size Justification"],
       [id |-> "dataAnalysisPlan", name |-> "Data Analysis Plan"],
       [id |-> "budget",           name |-> "Budget (Brief Outline)"],
       [id |-> "ethics",           name |-> "Ethical Considerations"],
       [id |-> "dissemination",    name |-> "Dissemination Plan"] >>

\* the part of the catalog the model explores
Catalog == SubSeq(PROPOSAL_SECTIONS, 1, NumSections)

SectionIds == { Catalog[i].id : i \in 1..Len(Catalog) }

SectionName(sectionId) ==
    LET hits == { i \in 1..Len(PROPOSAL_SECTIONS) : PROPOSAL_SECTIONS[i].id = sectionId }
    IN  IF hits = {} THEN sectionId
        ELSE PROPOSAL_SECTIONS[CHOOSE i \in hits : \A j \in hits : i <= j].name

actionOptions == << "expand", "rewrite", "summarize", "improve", "simplify" >>

styleOptions == << "formal", "casual", "creative", "professional" >>

ActionValues == { actionOptions[i] : i \in 1..NumActions }

StyleValues == { styleOptions[i] : i \in 1..NumStyles }

EthicsStatuses == { "Not Submitted", "Submitted", "Feedback Received", "Approved" }

UserRoles == { "HCP", "RESEARCHER", "STATISTICIAN" }

MOCK_USERS ==
    { [id |-> "user_hcp", role |-> "HCP"],
      [id |-> "user_researcher", role |-> "RESEARCHER"],
      [id |-> "user_statistician", role |-> "STATISTICIAN"] }

\* JavaScript's undefined, for an optional string
Undefined == "undefined"

Falsy(s) == s = Undefined \/ s = ""

OrElse(s, fallback) == IF Falsy(s) THEN fallback ELSE s

CommitteeFeedback ==
    "The Ethics Committee has reviewed your proposal. Please clarify the patient recruitment strategy (Section: Methodology) and provide more details on data anonymization (Section: Ethics). Resubmission required."

ApprovalFeedback == "Congratulations! Your proposal has been approved."

ApprovalRequiredMessage ==
    "Proposal must be approved by Ethics Committee before proceeding."

SuggestionFallbackError == "Failed to get AI suggestions."

SuggestionSeparator == "\n\n--- AI Suggestions ---\n"

TransformFailedMessage == "Failed to get response. Please try again."

ProposalStage == "PROPOSAL_DEVELOPMENT"

DATA_COLLECTION_ANALYSIS == "DATA_COLLECTION_ANALYSIS"

ProposalRoute == "/proposal"

DataRoute == "/data"

\* the banner, kept by its type; the message text is not stored
NoNotification == [type |-> "none"]

Notify(message, type) == [type |-> type]

-----------------------------------------------------------------------------
(* Inputs from the environment *)

\* what the user can make of the document's text in one editing gesture
TypedTexts == { "a" }

\* data.text of a 2xx answer of the transform endpoint
TransformTexts == { "r", Undefined }

\* how a transform request can fail
TransformFailures == { "network_error", "non_2xx", "malformed_body" }

\* answers of generateTextWithRAG
RagResponses ==
    { [text |-> "s", error |-> Undefined],
      [text |-> Undefined, error |-> "Service unavailable"],
      [text |-> "s", error |-> "Service unavailable"],
      [text |-> Undefined, error |-> Undefined] }

-----------------------------------------------------------------------------
(* The editing surface's document: its paragraphs, in order *)

EmptyDoc == << "" >>

RECURSIVE JoinBlocks(_, _)
JoinBlocks(d, separator) ==
    IF Len(d) = 0 THEN ""
    ELSE IF Len(d) = 1 THEN d[1]
    ELSE d[1] \o separator \o JoinBlocks(Tail(d), separator)

\* editor.getText(): the paragraphs' text, blocks separated by a blank line
getText(d) == JoinBlocks(d, "\n\n")

RECURSIVE getHTML(_)
\* editor.getHTML(): the serialized markup
getHTML(d) ==
    IF Len(d) = 0 THEN ""
    ELSE "<p>" \o d[1] \o "</p>" \o getHTML(Tail(d))

\* markup of one paragraph
IsParagraph(text) ==
    /\ Len(text) >= 7
    /\ SubSeq(text, 1, 3) = "<p>"
    /\ SubSeq(text, Len(text) - 3, Len(text)) = "</p>"

\* content given as a string is parsed as markup: the markup of a paragraph
\* yields that paragraph, a plain string one paragraph holding it
setContent(text) ==
    IF IsParagraph(text) THEN << SubSeq(text, 4, Len(text) - 4) >> ELSE << text >>

-----------------------------------------------------------------------------
(* Shared project context *)

HasField(p, k) == k \in DOMAIN p

updateProposal(current, partial) ==
    [ k \in (DOMAIN current) \cup (DOMAIN partial) |->
        IF k \in DOMAIN partial THEN partial[k] ELSE current[k] ]

\* <Button isLoading=...>: a busy button cannot be pressed
ButtonDisabled == isLoading

EthicsStatusOf(p) == IF HasField(p, "ethicsStatus") THEN p.ethicsStatus ELSE Undefined

EthicsFeedbackOf(p) == IF HasField(p, "ethicsFeedback") THEN p.ethicsFeedback ELSE Undefined

-----------------------------------------------------------------------------
(* Screen: derived values of a render *)

\* mutant: the role is not consulted
canEdit_anyUser == TRUE

canEdit == currentUser = "HCP" \/ currentUser = "RESEARCHER"

Mounted == route = ProposalRoute

\* mutant: the screen's busy flag does not reach the editor
EditorDisabled_ignoresBusy == ~canEdit

EditorDisabled == ~canEdit \/ isLoading

\* mutant: the submit button is shown in every status
SubmitButtonRendered_anyStatus == canEdit

SubmitButtonRendered == canEdit /\ EthicsStatusOf(proposal) = "Not Submitted"

FeedbackButtonRendered == EthicsStatusOf(proposal) = "Submitted"

ResubmitButtonsRendered == canEdit /\ EthicsStatusOf(proposal) = "Feedback Received"

\* mutant: the standalone force-approve button is also shown in Submitted
ForceApproveButtonRendered_submittedToo ==
    /\ canEdit
    /\ EthicsStatusOf(proposal) # "Approved"
    /\ EthicsStatusOf(proposal) # "Feedback Received"

ForceApproveButtonRendered ==
    /\ canEdit
    /\ EthicsStatusOf(proposal) # "Approved"
    /\ EthicsStatusOf(proposal) # "Feedback Received"
    /\ EthicsStatusOf(proposal) # "Submitted"

ProceedButtonRendered == EthicsStatusOf(proposal) = "Approved"

-----------------------------------------------------------------------------
(* Screen: handlers.  cp is currentProject.proposal as the handler's render *)
(* captured it, current is the context's proposal when the update lands.   *)

\* mutant: the proposal is rebuilt around the new sections, as the removed
\* local-draft code did
handleSectionChange_resetsStatus(cp, current, sectionId, value) ==
    updateProposal(current, [ sections |-> [cp.sections EXCEPT ![sectionId] = value],
                              ethicsStatus |-> "Not Submitted" ])

handleSectionChange(cp, current, sectionId, value) ==
    updateProposal(current, [cp EXCEPT !.sections = [@ EXCEPT ![sectionId] = value]])

\* mutant: the saved copy is rebuilt without the committee's feedback
handleSaveProposal_dropsFeedback(cp, current) ==
    [ k \in (DOMAIN cp) \ { "ethicsFeedback" } |-> cp[k] ]

handleSaveProposal(cp, current) == updateProposal(current, cp)

handleSaveNotification == Notify("Proposal draft saved successfully!", "success")

\* handleSaveProposal, bound to the Save Draft button
SaveDraft ==
    /\ proposal' = handleSaveProposal(proposal, proposal)
    /\ notification' = handleSaveNotification
    /\ UNCHANGED << currentUser, users, stage, assignedStatistician, isLoading, error,
                    route, activeSection, suggestion, suggestionCount >>
    /\ UNCHANGED editorVars

NoSuggestion == [pending |-> FALSE]

\* getAISectionSuggestion up to its await: the request leaves with the
\* closure of the render that issued it
getAISectionSuggestion(sectionId) ==
    /\ isLoading' = TRUE
    /\ error' = Undefined
    /\ notification' = NoNotification
    /\ suggestion' = [ pending |-> TRUE,
                       sectionId |-> sectionId,
                       cp |-> proposal,
                       currentSectionContent |-> OrElse(proposal.sections[sectionId], "") ]
    /\ suggestionCount' = suggestionCount + 1
    /\ UNCHANGED << currentUser, users, proposal, stage, assignedStatistician, route,
                    activeSection >>
    /\ UNCHANGED editorVars

\* mutant: a reported error does not stop the text from being applied
SuggestionSucceeded_ignoresError(response) == ~Falsy(response.text)

SuggestionSucceeded(response) == ~Falsy(response.text) /\ Falsy(response.error)

\* mutant: the suggestion takes the place of the section's content
SuggestedContent_replaces(currentSectionContent, text) == SuggestionSeparator \o text

SuggestedContent(currentSectionContent, text) ==
    currentSectionContent \o SuggestionSeparator \o text

\* getAISectionSuggestion after its await
SuggestionResponse(response) ==
    /\ suggestion.pending
    /\ IF SuggestionSucceeded(response)
       THEN /\ proposal' = handleSectionChange(suggestion.cp, proposal, suggestion.sectionId,
                               SuggestedContent(suggestion.currentSectionContent, response.text))
            /\ notification' = Notify("AI suggestions for '" \o suggestion.sectionId \o "' loaded.", "info")
            /\ error' = error
       ELSE /\ error' = OrElse(response.error, SuggestionFallbackError)
            /\ notification' = Notify("Error: " \o response.error, "error")
            /\ proposal' = proposal
    /\ isLoading' = FALSE
    /\ suggestion' = NoSuggestion
    /\ UNCHANGED << currentUser, users, stage, assignedStatistician, route, activeSection,
                    suggestionCount >>
    /\ UNCHANGED editorVars

\* mutant: a submission wipes the feedback stored earlier
submitToEthics_clearsFeedback ==
    /\ proposal' = updateProposal(proposal, [ethicsStatus |-> "Submitted", ethicsFeedback |-> ""])
    /\ notification' = Notify("Proposal submitted to Ethics Committee/IRB (Simulated).", "success")
    /\ UNCHANGED << currentUser, users, stage, assignedStatistician, isLoading, error,
                    route, activeSection, suggestion, suggestionCount >>
    /\ UNCHANGED editorVars

\* mutant: the status string is misspelt
submitToEthics_lowercase ==
    /\ proposal' = updateProposal(proposal, [ethicsStatus |-> "submitted"])
    /\ notification' = Notify("Proposal submitted to Ethics Committee/IRB (Simulated).", "success")
    /\ UNCHANGED << currentUser, users, stage, assignedStatistician, isLoading, error,
                    route, activeSection, suggestion, suggestionCount >>
    /\ UNCHANGED editorVars

submitToEthics ==
    /\ proposal' = updateProposal(proposal, [ethicsStatus |-> "Submitted"])
    /\ notification' = Notify("Proposal submitted to Ethics Committee/IRB (Simulated).", "success")
    /\ UNCHANGED << currentUser, users, stage, assignedStatistician, isLoading, error,
                    route, activeSection, suggestion, suggestionCount >>
    /\ UNCHANGED editorVars

simulateEthicsFeedback ==
    /\ proposal' = updateProposal(proposal,
                      [ethicsStatus |-> "Feedback Received", ethicsFeedback |-> CommitteeFeedback])
    /\ notification' = Notify("Simulated feedback received from Ethics Committee.", "info")
    /\ UNCHANGED << currentUser, users, stage, assignedStatistician, isLoading, error,
                    route, activeSection, suggestion, suggestionCount >>
    /\ UNCHANGED editorVars

\* mutant: the role of the user found is not looked at
Statisticians_anyUser == users

Statisticians == { u \in users : u.role = "STATISTICIAN" }

\* assignExpert('statistician', id) of the project context
assignExpert(id) == assignedStatistician' = id

markEthicsApproved ==
    /\ proposal' = updateProposal(proposal,
                      [ethicsStatus |-> "Approved", ethicsFeedback |-> ApprovalFeedback])
    /\ IF Statisticians # {}
       THEN /\ \E u \in Statisticians : assignExpert(u.id)
            /\ notification' = Notify("Proposal Approved! Statistician has been assigned (12 hours allocated).", "success")
       ELSE /\ assignedStatistician' = assignedStatistician
            /\ notification' = Notify("Proposal Approved! (No mock statistician found).", "success")
    /\ UNCHANGED << currentUser, users, stage, isLoading, error, route, activeSection,
                    suggestion, suggestionCount >>
    /\ UNCHANGED editorVars

\* mutant: the approval check is missing
proceedToDataCollection_unguarded ==
    /\ stage' = DATA_COLLECTION_ANALYSIS
    /\ notification' = Notify("Proceeding to Data Collection & Analysis.", "success")
    /\ route' = DataRoute
    /\ UNCHANGED << currentUser, users, proposal, assignedStatistician, isLoading, error,
                    activeSection, suggestion, suggestionCount >>
    /\ UNCHANGED editorVars

proceedToDataCollection ==
    /\ IF EthicsStatusOf(proposal) = "Approved"
       THEN /\ stage' = DATA_COLLECTION_ANALYSIS
            /\ notification' = Notify("Proceeding to Data Collection & Analysis.", "success")
            /\ route' = DataRoute
            /\ error' = error
       ELSE /\ error' = ApprovalRequiredMessage
            /\ notification' = Notify(ApprovalRequiredMessage, "error")
            /\ UNCHANGED << stage, route >>
    /\ UNCHANGED << currentUser, users, proposal, assignedStatistician, isLoading,
                    activeSection, suggestion, suggestionCount >>
    /\ UNCHANGED editorVars

-----------------------------------------------------------------------------
(* Screen: the controls of a render *)

SelectSection(sectionId) ==
    /\ Mounted
    /\ activeSection' = sectionId
    /\ UNCHANGED << currentUser, users, proposal, stage, assignedStatistician, isLoading,
                    error, route, notification, suggestion, suggestionCount >>
    /\ UNCHANGED editorVars

ClickSaveDraft == Mounted /\ canEdit /\ ~ButtonDisabled /\ SaveDraft

ClickAISuggestions ==
    /\ Mounted /\ canEdit /\ ~ButtonDisabled
    /\ activeSection \in SectionIds
    /\ suggestionCount < MaxSuggestions
    /\ getAISectionSuggestion(activeSection)

SuggestionArrives == \E response \in RagResponses : SuggestionResponse(response)

ClickSubmit == Mounted /\ SubmitButtonRendered /\ ~ButtonDisabled /\ submitToEthics

ClickSimulateFeedback ==
    Mounted /\ FeedbackButtonRendered /\ ~ButtonDisabled /\ simulateEthicsFeedback

ClickResubmit == Mounted /\ ResubmitButtonsRendered /\ ~ButtonDisabled /\ submitToEthics

ClickForceApproveAfterFeedback ==
    Mounted /\ ResubmitButtonsRendered /\ ~ButtonDisabled /\ markEthicsApproved

ClickForceApprove ==
    Mounted /\ ForceApproveButtonRendered /\ ~ButtonDisabled /\ markEthicsApproved

ClickProceed ==
    Mounted /\ ProceedButtonRendered /\ ~ButtonDisabled /\ proceedToDataCollection

-----------------------------------------------------------------------------
(* Editing surface *)

NoRequest == [pending |-> FALSE]

Call(fn, arg) == [fn |-> fn, arg |-> arg]

\* mutant: the change callback receives the plain text
onUpdate_reportsText(newDoc) ==
    /\ doc' = newDoc
    /\ proposal' = handleSectionChange(proposal, proposal, activeSection, getText(newDoc))
    /\ UNCHANGED << currentUser, users >>
    /\ UNCHANGED screenVars
    /\ UNCHANGED << action, style, loading, responseText, modalOpen, editorError, request,
                    accepted, dismissed, inFlight >>

\* onUpdate: the screen's onChange receives the serialized markup
onUpdate(newDoc) ==
    /\ doc' = newDoc
    /\ proposal' = handleSectionChange(proposal, proposal, activeSection, getHTML(newDoc))
    /\ UNCHANGED << currentUser, users >>
    /\ UNCHANGED screenVars
    /\ UNCHANGED << action, style, loading, responseText, modalOpen, editorError, request,
                    accepted, dismissed, inFlight >>

\* mutant: the surface stays editable whatever the disabled prop
Editable_always == TRUE

\* editable: !disabled
Editable == ~EditorDisabled

\* the user edits the document: its text becomes what was typed
EditorInput(text) ==
    /\ Mounted /\ Editable
    /\ setContent(text) # doc
    /\ onUpdate(setContent(text))

\* mutant: the editor's busy flag does not disable its controls
SendControlsDisabled_ignoresLoading == EditorDisabled

SendControlsDisabled == EditorDisabled \/ loading

setAction(value) ==
    /\ Mounted /\ ~SendControlsDisabled
    /\ action' = value
    /\ UNCHANGED << currentUser, users, proposal >>
    /\ UNCHANGED screenVars
    /\ UNCHANGED << doc, style, loading, responseText, modalOpen, editorError, request,
                    accepted, dismissed, inFlight >>

setStyle(value) ==
    /\ Mounted /\ ~SendControlsDisabled
    /\ style' = value
    /\ UNCHANGED << currentUser, users, proposal >>
    /\ UNCHANGED screenVars
    /\ UNCHANGED << doc, action, loading, responseText, modalOpen, editorError, request,
                    accepted, dismissed, inFlight >>

\* mutant: the request carries the serialized markup
handleSend_sendsMarkup ==
    /\ loading' = TRUE
    /\ editorError' = ""
    /\ request' = [ pending |-> TRUE,
                    body |-> [text |-> getHTML(doc), action |-> action, style |-> style] ]
    /\ dismissed' = FALSE
    /\ inFlight' = inFlight + 1
    /\ UNCHANGED << currentUser, users, proposal >>
    /\ UNCHANGED screenVars
    /\ UNCHANGED << doc, action, style, responseText, modalOpen, accepted >>

\* handleSend up to its await
handleSend ==
    /\ loading' = TRUE
    /\ editorError' = ""
    /\ request' = [ pending |-> TRUE,
                    body |-> [text |-> getText(doc), action |-> action, style |-> style] ]
    /\ dismissed' = FALSE
    /\ inFlight' = inFlight + 1
    /\ UNCHANGED << currentUser, users, proposal >>
    /\ UNCHANGED screenVars
    /\ UNCHANGED << doc, action, style, responseText, modalOpen, accepted >>

ClickSend == Mounted /\ ~SendControlsDisabled /\ handleSend

\* handleSend after its await: a 2xx answer whose body parses
handleSendSuccess(dataText) ==
    /\ request.pending
    /\ responseText' = OrElse(dataText, "")
    /\ modalOpen' = TRUE
    /\ loading' = FALSE
    /\ request' = NoRequest
    /\ UNCHANGED << currentUser, users, proposal >>
    /\ UNCHANGED screenVars
    /\ inFlight' = inFlight - 1
    /\ UNCHANGED << doc, action, style, editorError, accepted, dismissed >>

\* handleSend after its await: fetch rejects, the status is not 2xx, or the
\* body does not parse; the catch block does not look at the cause
\* mutant: the busy flag is cleared on success only
handleSendFailure_keepsLoading(cause) ==
    /\ request.pending
    /\ cause \in TransformFailures
    /\ editorError' = TransformFailedMessage
    /\ request' = NoRequest
    /\ inFlight' = inFlight - 1
    /\ UNCHANGED << currentUser, users, proposal >>
    /\ UNCHANGED screenVars
    /\ UNCHANGED << doc, action, style, loading, responseText, modalOpen, accepted, dismissed >>

handleSendFailure(cause) ==
    /\ request.pending
    /\ cause \in TransformFailures
    /\ editorError' = TransformFailedMessage
    /\ loading' = FALSE
    /\ request' = NoRequest
    /\ UNCHANGED << currentUser, users, proposal >>
    /\ UNCHANGED screenVars
    /\ inFlight' = inFlight - 1
    /\ UNCHANGED << doc, action, style, responseText, modalOpen, accepted, dismissed >>

TransformSucceeds == Mounted /\ \E dataText \in TransformTexts : handleSendSuccess(dataText)

TransformFails == Mounted /\ \E cause \in TransformFailures : handleSendFailure(cause)

AcceptNotification(sectionId) ==
    Notify(SectionName(sectionId) \o " section updated with AI suggestion and saved!", "success")

\* mutant: the acceptance ends with the update, no save follows it
AcceptedProposal_withoutSave(cp, sectionId, content) ==
    LET afterOnChange == handleSectionChange(cp, cp, sectionId, content)
    IN  handleSectionChange(cp, afterOnChange, sectionId, content)

\* the screen's onChange followed by its onAIContentAccept, all from one render
AcceptedProposal(cp, sectionId, content) ==
    LET afterOnChange == handleSectionChange(cp, cp, sectionId, content)
        afterAcceptChange == handleSectionChange(cp, afterOnChange, sectionId, content)
    IN  handleSaveProposal(cp, afterAcceptChange)

\* mutant: the response is applied whether or not it is empty
handleAccept_unguarded ==
    /\ doc' = setContent(responseText)
    /\ accepted' = << Call("onChange", responseText),
                      Call("onAIContentAccept", responseText) >>
    /\ proposal' = AcceptedProposal(proposal, activeSection, responseText)
    /\ notification' = AcceptNotification(activeSection)
    /\ modalOpen' = FALSE
    /\ responseText' = ""
    /\ dismissed' = FALSE
    /\ UNCHANGED << currentUser, users, stage, assignedStatistician, isLoading, error,
                    route, activeSection, suggestion, suggestionCount >>
    /\ UNCHANGED << action, style, loading, editorError, request, inFlight >>

handleAccept ==
    /\ IF responseText # ""
       THEN /\ doc' = setContent(responseText)
            /\ accepted' = << Call("onChange", responseText),
                              Call("onAIContentAccept", responseText) >>
            /\ proposal' = AcceptedProposal(proposal, activeSection, responseText)
            /\ notification' = AcceptNotification(activeSection)
       ELSE UNCHANGED << doc, accepted, proposal, notification >>
    /\ modalOpen' = FALSE
    /\ responseText' = ""
    /\ dismissed' = FALSE
    /\ UNCHANGED << currentUser, users, stage, assignedStatistician, isLoading, error,
                    route, activeSection, suggestion, suggestionCount >>
    /\ UNCHANGED << action, style, loading, editorError, request, inFlight >>

\* mutant: Resend closes the modal with the response still held
handleResend_keepsResponse ==
    /\ modalOpen' = FALSE
    /\ dismissed' = TRUE
    /\ UNCHANGED << currentUser, users, proposal >>
    /\ UNCHANGED screenVars
    /\ UNCHANGED << doc, action, style, loading, responseText, editorError, request,
                    accepted, inFlight >>

handleResend ==
    /\ modalOpen' = FALSE
    /\ responseText' = ""
    /\ dismissed' = TRUE
    /\ UNCHANGED << currentUser, users, proposal >>
    /\ UNCHANGED screenVars
    /\ UNCHANGED << doc, action, style, loading, editorError, request, accepted, inFlight >>

\* mutant: keeping the existing text puts the response into the surface
handleKeepExisting_replaces ==
    /\ doc' = setContent(responseText)
    /\ modalOpen' = FALSE
    /\ responseText' = ""
    /\ dismissed' = TRUE
    /\ UNCHANGED << currentUser, users, proposal >>
    /\ UNCHANGED screenVars
    /\ UNCHANGED << action, style, loading, editorError, request, accepted, inFlight >>

handleKeepExisting ==
    /\ modalOpen' = FALSE
    /\ responseText' = ""
    /\ dismissed' = TRUE
    /\ UNCHANGED << currentUser, users, proposal >>
    /\ UNCHANGED screenVars
    /\ UNCHANGED << doc, action, style, loading, editorError, request, accepted, inFlight >>

ClickAccept == Mounted /\ modalOpen /\ handleAccept

ClickResend == Mounted /\ modalOpen /\ handleResend

ClickKeepExisting == Mounted /\ modalOpen /\ handleKeepExisting

-----------------------------------------------------------------------------
(* The state machine *)

\* the project the screen is mounted on: sections unset, in any ethics status
\* an earlier visit can have left
InitialProposals ==
    LET unset == [s \in SectionIds |-> ""]
    IN  { [sections |-> unset, ethicsStatus |-> "Not Submitted"],
          [sections |-> unset, ethicsStatus |-> "Submitted"],
          [sections |-> unset, ethicsStatus |-> "Feedback Received",
           ethicsFeedback |-> CommitteeFeedback],
          [sections |-> unset, ethicsStatus |-> "Approved",
           ethicsFeedback |-> ApprovalFeedback] }

\* the screen and its editor as mounted, whatever the predefined user list
ScreenInit ==
    /\ currentUser \in UserRoles
    /\ proposal \in InitialProposals
    /\ stage = ProposalStage
    /\ assignedStatistician = Undefined
    /\ isLoading = FALSE
    /\ error = Undefined
    /\ route = ProposalRoute
    /\ activeSection = PROPOSAL_SECTIONS[1].id
    /\ notification = NoNotification
    /\ suggestion = NoSuggestion
    /\ suggestionCount = 0
    /\ doc = setContent(OrElse(proposal.sections[activeSection], ""))
    /\ action = "rewrite"
    /\ style = "formal"
    /\ loading = FALSE
    /\ responseText = ""
    /\ modalOpen = FALSE
    /\ editorError = ""
    /\ request = NoRequest
    /\ accepted = << >>
    /\ dismissed = FALSE
    /\ inFlight = 0

Init == users = MOCK_USERS /\ ScreenInit

\* the screen with its editor; the two selects of the editor are left to
\* Next: they write action and style only, which handleSend copies into the
\* request body and nothing else reads
WorkflowNext ==
    \/ \E sectionId \in SectionIds : SelectSection(sectionId)
    \/ \E text \in TypedTexts : EditorInput(text)
    \/ ClickSend
    \/ TransformSucceeds
    \/ TransformFails
    \/ ClickAccept
    \/ ClickResend
    \/ ClickKeepExisting
    \/ ClickSaveDraft
    \/ ClickAISuggestions
    \/ SuggestionArrives
    \/ ClickSubmit
    \/ ClickSimulateFeedback
    \/ ClickResubmit
    \/ ClickForceApproveAfterFeedback
    \/ ClickForceApprove
    \/ ClickProceed

Next ==
    \/ WorkflowNext
    \/ \E value \in ActionValues : setAction(value)
    \/ \E value \in StyleValues : setStyle(value)

Spec == Init /\ [][Next]_vars

WorkflowSpec == Init /\ [][WorkflowNext]_vars

\* the screen's own controls, and its proceed handler called directly,
\* whatever the render shows; the editor's transform flow, which writes
\* neither stage, route nor ethicsStatus, is left to WorkflowNext
HandlerNext ==
    \/ \E sectionId \in SectionIds : SelectSection(sectionId)
    \/ \E text \in TypedTexts : EditorInput(text)
    \/ ClickSaveDraft
    \/ ClickAISuggestions
    \/ SuggestionArrives
    \/ ClickSubmit
    \/ ClickSimulateFeedback
    \/ ClickResubmit
    \/ ClickForceApproveAfterFeedback
    \/ ClickForceApprove
    \/ ClickProceed
    \/ (Mounted /\ proceedToDataCollection)

HandlerSpec == Init /\ [][HandlerNext]_vars

\* the predefined user list with and without a statistician in it
UserLists == { MOCK_USERS, { u \in MOCK_USERS : u.role # "STATISTICIAN" } }

AssignmentInit == users \in UserLists /\ ScreenInit

AssignmentSpec == AssignmentInit /\ [][HandlerNext]_vars

\* the editor component under every value of its disabled prop: the screen
\* contributes the section switch and the suggestion call that raises isLoading
EditorInit == Init /\ EthicsStatusOf(proposal) = "Not Submitted"

EditorNext ==
    \/ \E sectionId \in SectionIds : SelectSection(sectionId)
    \/ \E text \in TypedTexts : EditorInput(text)
    \/ \E value \in ActionValues : setAction(value)
    \/ \E value \in StyleValues : setStyle(value)
    \/ ClickSend
    \/ TransformSucceeds
    \/ TransformFails
    \/ ClickAccept
    \/ ClickResend
    \/ ClickKeepExisting
    \/ ClickAISuggestions
    \/ SuggestionArrives

EditorSpec == EditorInit /\ [][EditorNext]_vars

\* the two outbound calls with what can precede and follow them on one section
CallsNext ==
    \/ \E text \in TypedTexts : EditorInput(text)
    \/ ClickSend
    \/ TransformSucceeds
    \/ TransformFails
    \/ ClickAccept
    \/ ClickResend
    \/ ClickKeepExisting
    \/ ClickAISuggestions
    \/ SuggestionArrives

\* every call issued is answered: the promise of fetch settles, and the
\* generation service returns
FairCallsSpec ==
    /\ EditorInit
    /\ [][CallsNext]_vars
    /\ WF_vars(TransformSucceeds \/ TransformFails)
    /\ WF_vars(SuggestionArrives)

\* the record of the project under everything that can write it: the edits,
\* the two calls with the three answers to a shown response, the save and
\* the ethics actions, on any section
RecordNext ==
    \/ \E sectionId \in SectionIds : SelectSection(sectionId)
    \/ \E text \in TypedTexts : EditorInput(text)
    \/ ClickSend
    \/ TransformSucceeds
    \/ TransformFails
    \/ ClickAccept
    \/ ClickResend
    \/ ClickKeepExisting
    \/ ClickAISuggestions
    \/ SuggestionArrives
    \/ ClickSaveDraft
    \/ ClickSubmit
    \/ ClickSimulateFeedback
    \/ ClickResubmit
    \/ ClickForceApproveAfterFeedback
    \/ ClickForceApprove

RecordSpec == EditorInit /\ [][RecordNext]_vars

-----------------------------------------------------------------------------
(* Properties *)

status == EthicsStatusOf(proposal)

Editor == currentUser \in { "HCP", "RESEARCHER" }

Idle == Mounted /\ ~isLoading

\* C1: proceedToDataCollection sets the stage to DATA_COLLECTION_ANALYSIS and
\* navigates to /data exactly when ethicsStatus is "Approved"; for any other
\* status it sets the context error and leaves stage and route as they were.
\* Stage and route change in no other way.
C1_ProceedIffApproved ==
    /\ [][ (Mounted /\ proceedToDataCollection) =>
             IF status = "Approved"
             THEN stage' = DATA_COLLECTION_ANALYSIS /\ route' = DataRoute
             ELSE error' = ApprovalRequiredMessage /\ stage' = stage /\ route' = route ]_vars
    /\ [][ (stage' # stage \/ route' # route) =>
             /\ status = "Approved"
             /\ stage' = DATA_COLLECTION_ANALYSIS
             /\ route' = DataRoute ]_vars

\* a refused attempt, then approval, then a successful one
C1_Witness ==
    /\ error = ApprovalRequiredMessage
    /\ stage = DATA_COLLECTION_ANALYSIS
    /\ route = DataRoute

\* C2: ethicsStatus is always present and one of the four enumerated values.
C2_EthicsStatusEnumerated ==
    /\ HasField(proposal, "ethicsStatus")
    /\ proposal.ethicsStatus \in EthicsStatuses

\* resubmitted after feedback, with an accepted AI response and a suggestion applied
C2_Witness ==
    /\ status = "Submitted"
    /\ EthicsFeedbackOf(proposal) = CommitteeFeedback
    /\ accepted # << >>
    /\ suggestionCount > 0 /\ ~isLoading
    /\ \E s \in SectionIds : proposal.sections[s] = SuggestedContent("<p>a</p>", "s")

AllowedTransitions ==
    { << "Not Submitted", "Submitted" >>,
      << "Submitted", "Feedback Received" >>,
      << "Feedback Received", "Submitted" >>,
      << "Feedback Received", "Approved" >>,
      << "Not Submitted", "Approved" >> }

\* C3: every change of ethicsStatus is one of the five listed transitions, and
\* each of the five is enabled in its source state: the four gated ones for an
\* editing user, Submitted -> Feedback Received for any user.
C3_OnlyListedTransitions ==
    /\ [][ EthicsStatusOf(proposal') # status =>
             << status, EthicsStatusOf(proposal') >> \in AllowedTransitions ]_vars
    /\ []( (Idle /\ Editor /\ status = "Not Submitted") =>
             (ENABLED ClickSubmit /\ ENABLED ClickForceApprove) )
    /\ []( (Idle /\ status = "Submitted") => ENABLED ClickSimulateFeedback )
    /\ []( (Idle /\ Editor /\ status = "Feedback Received") =>
             (ENABLED ClickResubmit /\ ENABLED ClickForceApproveAfterFeedback) )

\* an editing user resubmitted after the committee's feedback
C3_Witness ==
    /\ Editor
    /\ status = "Submitted"
    /\ EthicsFeedbackOf(proposal) = CommitteeFeedback
    /\ notification.type = "success"

ForceApprove == ClickForceApprove \/ ClickForceApproveAfterFeedback

\* C4 as stated: in each of the four statuses an editing user has force-approve enabled.
C4_ForceApproveFromAnyStatus == (Idle /\ Editor) => ENABLED ForceApprove

\* C4 amended: force-approve is enabled for an editing user exactly in
\* Not Submitted and Feedback Received, never for another user, and taking it
\* sets ethicsStatus to "Approved".
C4_ForceApproveWhereRendered ==
    /\ []( (Idle /\ Editor) =>
             (ENABLED ForceApprove <=> status \in { "Not Submitted", "Feedback Received" }) )
    /\ []( ~Editor => ~ENABLED ForceApprove )
    /\ [][ ForceApprove => EthicsStatusOf(proposal') = "Approved" ]_vars

\* force-approved out of Feedback Received or Not Submitted
C4_Witness ==
    /\ status = "Approved"
    /\ EthicsFeedbackOf(proposal) = ApprovalFeedback
    /\ assignedStatistician # Undefined
    /\ Editor

\* C5: once ethicsStatus is "Approved" it stays "Approved".
C5_ApprovedIsTerminal ==
    [][ status = "Approved" => EthicsStatusOf(proposal') = "Approved" ]_vars

\* a project found approved (no statistician assigned by this screen), on which
\* an edit, an accepted AI response and a suggestion followed
C5_Witness ==
    /\ status = "Approved"
    /\ assignedStatistician = Undefined
    /\ accepted # << >>
    /\ suggestionCount > 0 /\ ~isLoading
    /\ \E s \in SectionIds : proposal.sections[s] = SuggestedContent("<p>a</p>", "s")

\* C6: for a user who is neither HCP nor RESEARCHER the only ethics transition
\* is Submitted -> Feedback Received; submit, resubmit and force-approve are
\* never enabled.
C6_RoleGatedTransitions ==
    /\ [][ (~Editor /\ EthicsStatusOf(proposal') # status) =>
             (status = "Submitted" /\ EthicsStatusOf(proposal') = "Feedback Received") ]_vars
    /\ []( ~Editor =>
             /\ ~ENABLED ClickSubmit
             /\ ~ENABLED ClickResubmit
             /\ ~ENABLED ForceApprove )
    /\ []( (~Editor /\ Idle /\ status = "Submitted") => ENABLED ClickSimulateFeedback )

\* a viewer simulated the committee's feedback
C6_Witness ==
    /\ ~Editor
    /\ status = "Feedback Received"
    /\ notification = Notify("Simulated feedback received from Ethics Committee.", "info")

\* C7: no step taken by a user without the edit role changes the stored text
\* of any section.
C7_NoEditWithoutPermission ==
    [][ ~Editor => proposal'.sections = proposal.sections ]_vars

\* a viewer who switched section and simulated feedback
C7_Witness ==
    /\ ~Editor
    /\ activeSection # PROPOSAL_SECTIONS[1].id
    /\ notification.type = "info"
    /\ \A s \in SectionIds : proposal.sections[s] = ""

AcceptCalls(text) == << Call("onChange", text), Call("onAIContentAccept", text) >>

\* C8 as stated: whatever response the modal shows, Accept puts it into the
\* surface and calls onChange and onAIContentAccept with it, then closes the
\* modal and clears the response.
C8_AcceptAppliesEveryResponse ==
    [][ ClickAccept =>
          /\ doc' = setContent(responseText)
          /\ accepted' = AcceptCalls(responseText)
          /\ ~modalOpen'
          /\ responseText' = "" ]_vars

\* C8 amended: Accept on a non-empty response replaces the whole content of
\* the surface with it and calls onChange, then onAIContentAccept, with exactly
\* that text; Accept on an empty response changes neither the surface nor the
\* project record and calls nothing.  Either way the modal is closed and the
\* response cleared.
C8_AcceptAppliesNonEmptyResponse ==
    [][ ClickAccept =>
          /\ ~modalOpen'
          /\ responseText' = ""
          /\ IF responseText # ""
             THEN /\ doc' = setContent(responseText)
                  /\ getText(doc') = responseText
                  /\ accepted' = AcceptCalls(responseText)
             ELSE /\ doc' = doc
                  /\ accepted' = accepted
                  /\ proposal' = proposal ]_vars

\* the response "r" was accepted over the typed text
C8_Witness ==
    /\ accepted = AcceptCalls("r")
    /\ doc = << "r" >>
    /\ proposal.sections[activeSection] = "<p>a</p>"
    /\ ~modalOpen
    /\ responseText = ""
    /\ ~dismissed

Dismiss == ClickResend \/ ClickKeepExisting

\* the non-empty texts the transform endpoint can answer with
ResponseTexts == { t \in TransformTexts : ~Falsy(t) }

\* text occurs in content
Mentions(content, text) ==
    \E i \in 1..(Len(content) - Len(text) + 1) :
        SubSeq(content, i, i + Len(text) - 1) = text

\* C9: Resend and Keep Existing leave the surface's content and the whole
\* proposal as they were, close the modal and clear the response; and a step
\* that brings a response text into a stored section is an Accept of that text.
C9_DismissKeepsContent ==
    /\ [][ Dismiss =>
              /\ doc' = doc
              /\ proposal' = proposal
              /\ ~modalOpen'
              /\ responseText' = "" ]_vars
    /\ [][ \A s \in SectionIds : \A t \in ResponseTexts :
              ( /\ proposal'.sections[s] # proposal.sections[s]
                /\ Mentions(proposal'.sections[s], t)
                /\ ~Mentions(proposal.sections[s], t) ) =>
                  (ClickAccept /\ responseText = t) ]_vars

\* the response to the typed text was discarded: text and record are the typed ones
C9_Witness ==
    /\ dismissed
    /\ ~modalOpen
    /\ responseText = ""
    /\ doc = << "a" >>
    /\ proposal.sections[activeSection] = "<p>a</p>"
    /\ accepted = << >>

\* C10: right after a transform request fails, responseText is empty, the
\* error string is the generic message and the modal is closed.
C10_FailureLeavesModalClosed ==
    [][ TransformFails =>
          /\ responseText' = ""
          /\ editorError' = TransformFailedMessage
          /\ editorError' # ""
          /\ ~modalOpen' ]_vars

\* what the surface shows is the stored text of the active section
DisplaysActiveSection == doc = setContent(OrElse(proposal.sections[activeSection], ""))

\* C11: right after a section is selected the surface shows that section's
\* stored text, the empty text if the section is unset.
C11_SelectionDisplaysStoredText ==
    [][ (\E sectionId \in SectionIds : SelectSection(sectionId)) => DisplaysActiveSection' ]_vars

C13_SuggestionFailureKeepsRecord ==
    [][ \A response \in RagResponses :
          ( /\ SuggestionResponse(response)
            /\ (Falsy(response.text) \/ ~Falsy(response.error)) ) =>
              /\ error' = IF response.error \in { Undefined, "" }
                          THEN "Failed to get AI suggestions."
                          ELSE response.error
              /\ proposal' = proposal
              /\ proposal' = suggestion.cp
              /\ stage' = stage ]_vars

\* a request failed without a reported error, on an edited proposal with
\* committee feedback
C13_Witness ==
    /\ error = SuggestionFallbackError
    /\ ~isLoading
    /\ notification.type = "error"
    /\ status = "Feedback Received"
    /\ proposal.sections[activeSection] = "<p>a</p>"

\* an editing user on the mounted screen, with suggestion requests left to issue
CanRequestSuggestion == Mounted /\ Editor /\ suggestionCount < MaxSuggestions

\* C14 as stated: each call disables its own control while in flight, and the
\* other call can be started meanwhile, whichever of the two is in flight.
C14_EitherCallFirst ==
    /\ request.pending => ~ENABLED ClickSend
    /\ suggestion.pending => ~ENABLED ClickAISuggestions
    /\ (CanRequestSuggestion /\ request.pending /\ ~suggestion.pending) =>
           ENABLED ClickAISuggestions
    /\ (Mounted /\ Editor /\ suggestion.pending /\ ~request.pending) => ENABLED ClickSend

\* C14 amended: each call disables its own control while in flight; a
\* suggestion request can be started while a transform request is in flight,
\* but a suggestion request in flight disables Send as well, so the two are in
\* flight together only when the transform request was started first.
C14_SuggestionJoinsTransform ==
    /\ []( request.pending => ~ENABLED ClickSend )
    /\ []( suggestion.pending => (~ENABLED ClickAISuggestions /\ ~ENABLED ClickSend) )
    /\ []( (CanRequestSuggestion /\ request.pending /\ ~suggestion.pending) =>
              ENABLED ClickAISuggestions )
    /\ [][ ( /\ request'.pending /\ suggestion'.pending
              /\ ~(request.pending /\ suggestion.pending) ) => ClickAISuggestions ]_vars

\* both calls in flight
C14_Witness ==
    /\ request.pending /\ loading
    /\ suggestion.pending /\ isLoading

\* C15: at most one transform request is in flight; one is in flight exactly
\* while loading is true, and Send cannot be triggered meanwhile.
C15_TransformSingleFlight ==
    /\ inFlight <= 1
    /\ loading <=> inFlight = 1
    /\ request.pending <=> inFlight = 1
    /\ loading => ~ENABLED ClickSend

\* a second request in flight after the first one was answered
C15_Witness ==
    /\ inFlight = 1
    /\ loading
    /\ modalOpen
    /\ responseText = "r"

TransformCompletes == TransformSucceeds \/ TransformFails

\* C16 as stated: when a call completes, however it ends, its busy flag is
\* false and its triggering control is enabled again.
C16_ControlEnabledOnCompletion ==
    /\ [][ TransformCompletes => (~loading' /\ ~SendControlsDisabled') ]_vars
    /\ [][ SuggestionArrives => (~isLoading' /\ ~ButtonDisabled') ]_vars

\* C16 amended: when a call completes, however it ends, its busy flag is
\* false; the AI Suggestions button is enabled again at once, Send is enabled
\* again unless a suggestion request is in flight.  Every call being answered,
\* neither flag stays true forever.
C16_BusyFlagsReset ==
    /\ [][ TransformCompletes => (~loading' /\ (SendControlsDisabled' <=> isLoading')) ]_vars
    /\ [][ SuggestionArrives =>
              (~isLoading' /\ ~ButtonDisabled' /\ (SendControlsDisabled' <=> loading')) ]_vars
    /\ loading ~> ~loading
    /\ isLoading ~> ~isLoading

\* a transform request failed and a suggestion request was answered: both
\* flags are down
C16_Witness ==
    /\ editorError = TransformFailedMessage
    /\ suggestionCount > 0
    /\ ~loading /\ inFlight = 0
    /\ ~isLoading /\ ~suggestion.pending

StatisticianIds == { u.id : u \in { v \in users : v.role = "STATISTICIAN" } }

\* C17: markEthicsApproved sets the status to Approved and records a
\* statistician of the predefined list as assigned when there is one, and no
\* assignment when there is none; no other step records an assignment; a
\* statistician is assigned only on an approved proposal.
C17_AssignmentOnlyOnApproval ==
    /\ [][ ForceApprove =>
              /\ EthicsStatusOf(proposal') = "Approved"
              /\ IF StatisticianIds # {}
                 THEN assignedStatistician' \in StatisticianIds
                 ELSE assignedStatistician' = assignedStatistician ]_vars
    /\ [][ assignedStatistician' # assignedStatistician =>
              (ForceApprove /\ StatisticianIds # {}) ]_vars
    /\ []( assignedStatistician # Undefined => status = "Approved" )

\* approved after a refused attempt to proceed, with no statistician in the
\* list: nothing is assigned
C17_Witness ==
    /\ StatisticianIds = {}
    /\ error = ApprovalRequiredMessage
    /\ status = "Approved"
    /\ EthicsFeedbackOf(proposal) = ApprovalFeedback
    /\ assignedStatistician = Undefined

\* C18: Save Draft leaves the proposal (every section, ethicsStatus,
\* ethicsFeedback) exactly as it was; its only effect is the success banner.
C18_SaveDraftChangesNothing ==
    [][ ClickSaveDraft =>
          /\ proposal' = proposal
          /\ notification' = [type |-> "success"]
          /\ UNCHANGED << currentUser, users, stage, assignedStatistician, isLoading, error,
                          route, activeSection, suggestion, suggestionCount >>
          /\ UNCHANGED editorVars ]_vars

\* a draft with an edited section and the committee's feedback was saved
C18_Witness ==
    /\ status = "Feedback Received"
    /\ EthicsFeedbackOf(proposal) = CommitteeFeedback
    /\ notification.type = "success"
    /\ accepted = << >>
    /\ \E s \in SectionIds : proposal.sections[s] = "<p>a</p>"

\* C20: an edit of the active section s that reports content c (the markup of
\* the edited document) stores c for s and leaves every other section,
\* ethicsStatus and ethicsFeedback as they were.
C20_EditStoresActiveSectionOnly ==
    [][ \A text \in TypedTexts :
          EditorInput(text) =>
              /\ proposal'.sections[activeSection] = "<p>" \o text \o "</p>"
              /\ \A s \in SectionIds \ { activeSection } :
                     proposal'.sections[s] = proposal.sections[s]
              /\ DOMAIN proposal'.sections = DOMAIN proposal.sections
              /\ DOMAIN proposal' = DOMAIN proposal
              /\ EthicsStatusOf(proposal') = status
              /\ EthicsFeedbackOf(proposal') = EthicsFeedbackOf(proposal) ]_vars

\* the second section was edited after the first one, under the committee's
\* feedback
C20_Witness ==
    /\ activeSection = PROPOSAL_SECTIONS[2].id
    /\ doc = << "a" >>
    /\ proposal.sections[PROPOSAL_SECTIONS[2].id] = "<p>a</p>"
    /\ proposal.sections[PROPOSAL_SECTIONS[1].id] = "<p>a</p>"
    /\ status = "Feedback Received"
    /\ EthicsFeedbackOf(proposal) = CommitteeFeedback

AllActions == { actionOptions[i] : i \in 1..Len(actionOptions) }

AllStyles == { styleOptions[i] : i \in 1..Len(styleOptions) }

\* C19: action and style start as rewrite and formal and are always among the
\* options of their selects; a request issued by Send carries the plain text
\* of the surface at that moment with the selected action and style; while a
\* request is in flight neither selection can be changed.
C19_RequestCarriesTextActionStyle ==
    /\ action = "rewrite" /\ style = "formal"
    /\ []( action \in AllActions /\ style \in AllStyles )
    /\ [][ ClickSend =>
              /\ request'.pending
              /\ request'.body = [ text |-> JoinBlocks(doc, "\n\n"),
                                   action |-> action,
                                   style |-> style ] ]_vars
    /\ [][ request.pending => (action' = action /\ style' = style) ]_vars
    /\ []( request.pending =>
              /\ \A value \in ActionValues : ~ENABLED setAction(value)
              /\ \A value \in StyleValues : ~ENABLED setStyle(value) )

\* a request in flight for the typed text, after another action was selected
C19_Witness ==
    /\ request.pending
    /\ request.body = [ text |-> "a", action |-> "expand", style |-> "formal" ]
    /\ doc = << "a" >>

\* C21: after Accept of a non-empty response text while a section is active,
\* the stored text of that section in the shared project equals the response
\* text: the save that follows the update does not put the proposal of before
\* the acceptance back over it.
C21_AcceptedTextIsStored ==
    [][ (ClickAccept /\ responseText # "") =>
            proposal'.sections[activeSection] = responseText ]_vars

KeptByEthicsAction(fields) ==
    /\ DOMAIN proposal' = (DOMAIN proposal) \cup fields
    /\ \A k \in (DOMAIN proposal) \ fields : proposal'[k] = proposal[k]

\* C23: each ethics action submits only its partial, so every section's stored
\* text stays as it was; submitToEthics sets the status to Submitted and leaves
\* ethicsFeedback as it was (also on a resubmission after feedback),
\* simulateEthicsFeedback sets the status to Feedback Received and the feedback
\* to the committee's canned text, markEthicsApproved sets the status to
\* Approved and the feedback to the approval text.
C23_EthicsActionsWriteTheirPartial ==
    /\ [][ (ClickSubmit \/ ClickResubmit) =>
              /\ KeptByEthicsAction({ "ethicsStatus" })
              /\ proposal'.sections = proposal.sections
              /\ EthicsStatusOf(proposal') = "Submitted"
              /\ EthicsFeedbackOf(proposal') = EthicsFeedbackOf(proposal) ]_vars
    /\ [][ ClickSimulateFeedback =>
              /\ KeptByEthicsAction({ "ethicsStatus", "ethicsFeedback" })
              /\ proposal'.sections = proposal.sections
              /\ EthicsStatusOf(proposal') = "Feedback Received"
              /\ EthicsFeedbackOf(proposal') = CommitteeFeedback ]_vars
    /\ [][ ForceApprove =>
              /\ KeptByEthicsAction({ "ethicsStatus", "ethicsFeedback" })
              /\ proposal'.sections = proposal.sections
              /\ EthicsStatusOf(proposal') = "Approved"
              /\ EthicsFeedbackOf(proposal') = ApprovalFeedback ]_vars

\* a proposal with an edited section, resubmitted after the committee's
\* feedback: the feedback is still stored under the status Submitted
C23_Witness ==
    /\ status = "Submitted"
    /\ EthicsFeedbackOf(proposal) = CommitteeFeedback
    /\ proposal.sections[PROPOSAL_SECTIONS[1].id] = "<p>a</p>"
    /\ notification = Notify("Proposal submitted to Ethics Committee/IRB (Simulated).", "success")

\* C24: whenever the response modal is closed the pending response text is
\* empty; the response text changes to something else than the empty text
\* only in the step of a successful transform, which opens the modal; and
\* each of Accept, Resend and Keep Existing closes the modal and clears it.
C24_ClosedModalHoldsNoResponse ==
    /\ []( ~modalOpen => responseText = "" )
    /\ [][ (responseText' # responseText /\ responseText' # "") =>
              (TransformSucceeds /\ modalOpen') ]_vars
    /\ [][ TransformSucceeds => modalOpen' ]_vars
    /\ [][ (ClickAccept \/ ClickResend \/ ClickKeepExisting) =>
              (~modalOpen' /\ responseText' = "") ]_vars

\* one response was accepted and a later one discarded: the modal is closed
\* and holds nothing
C24_Witness ==
    /\ accepted = AcceptCalls("r")
    /\ dismissed
    /\ ~modalOpen
    /\ responseText = ""
    /\ ~loading

====
